---- MODULE Spec2Model ----
(***************************************************************************)
(* StrKeyDict0 (code/ch03/StrKeyDict0-test.py): a dict subclass whose      *)
(* lookups fall back from a non-str key to str(key).                       *)
(*                                                                         *)
(* State: the mapping d (a function from the stored keys to their values)  *)
(* and last, the record of the most recent call: its name, its arguments   *)
(* and what it returned or raised.  Keys are the hashable values a dict    *)
(* accepts as keys: str objects and int objects.  A key is a record        *)
(* [t, s, n]: t is the Python type, s the characters of a str, n the       *)
(* number of an int, so that the int 4 and the str '4' are different keys  *)
(* and str() is a real conversion between them.                            *)
(***************************************************************************)
EXTENDS Integers, Sequences, FiniteSets, TLC

VARIABLES d, last

vars == <<d, last>>

\* Bounds of the model: int keys are 1..MaxInt, the constructor takes at
\* most MaxPairs pairs.
MaxInt == 2
MaxPairs == 2

(***************************************************************************)
(* Values of the host runtime.                                             *)
(***************************************************************************)
\* Python's None: the default of get's second parameter and the value of a
\* call that returns nothing.
None == "None"

\* The values stored in the doctest's mapping.
Val == {"two", "four"}

\* What a caller passes as get's default: the doctest's 'N/A', or a value
\* that is also stored.
Default == {"N/A"} \cup Val

StrKey(s) == [t |-> "str", s |-> s, n |-> 0]
IntKey(n) == [t |-> "int", s |-> "", n |-> n]

\* A placeholder for the key field of a result that carries no key.
NoKey == [t |-> "none", s |-> "", n |-> 0]

Digits == <<"0", "1", "2", "3", "4", "5", "6", "7", "8", "9">>

\* The decimal rendering str() gives a non-negative int.
RECURSIVE ToText(_)
ToText(n) ==
    IF n < 10 THEN Digits[n + 1]
    ELSE ToText(n \div 10) \o Digits[(n % 10) + 1]

IntKeys == {IntKey(n) : n \in 1..MaxInt}

\* The str keys: the rendering of every int key, and a str that is the
\* rendering of no int.
TextKeys == {StrKey(ToText(n)) : n \in 1..MaxInt} \cup {StrKey("a")}

Key == IntKeys \cup TextKeys

\* isinstance(key, str)
isinstance_str(key) == key.t = "str"

\* str(key): a str is returned as it is, an int as its decimal rendering.
str(key) == IF isinstance_str(key) THEN key ELSE StrKey(ToText(key.n))

(***************************************************************************)
(* Outcomes of a call: a returned value, a returned bool, or KeyError      *)
(* carrying the key it was raised with.                                    *)
(***************************************************************************)
Ok(v) == [st |-> "ok", val |-> v, b |-> FALSE, key |-> NoKey]
Bool(b) == [st |-> "ok", val |-> None, b |-> b, key |-> NoKey]
KeyError(key) == [st |-> "KeyError", val |-> None, b |-> FALSE, key |-> key]

(***************************************************************************)
(* The inherited dict behaviour.                                           *)
(***************************************************************************)
EmptyDict == [k \in {} |-> None]

\* self.keys()
keys(self) == DOMAIN self

\* dict.__setitem__: the key is stored as given.
dict_setitem(self, key, value) ==
    [k \in keys(self) \cup {key} |-> IF k = key THEN value ELSE self[k]]

\* dict.__delitem__ of a stored key.
dict_delitem(self, key) == [k \in keys(self) \ {key} |-> self[k]]

StrKeyDict0FirstWins(pairs) ==
    [k \in {pairs[i][1] : i \in DOMAIN pairs} |->
        LET i == CHOOSE i \in DOMAIN pairs :
                    /\ pairs[i][1] = k
                    /\ \A j \in DOMAIN pairs : pairs[j][1] = k => i <= j
        IN pairs[i][2]]

\* StrKeyDict0(pairs): dict's constructor inserts the pairs in order with
\* the standard insertion, so a later pair replaces an earlier one that
\* has the same key.
RECURSIVE StrKeyDict0(_)
StrKeyDict0(pairs) ==
    IF pairs = <<>> THEN EmptyDict
    ELSE LET n == Len(pairs)
         IN dict_setitem(StrKeyDict0(SubSeq(pairs, 1, n - 1)),
                         pairs[n][1], pairs[n][2])

(***************************************************************************)
(* The class's own methods.                                                *)
(***************************************************************************)
RECURSIVE __getitem__(_, _), __missing__(_, _)

MissingNoFallback(self, key) == KeyError(key)

MissingReportsOriginal(self, key) ==
    IF isinstance_str(key) THEN KeyError(key)
    ELSE IF str(key) \in keys(self) THEN Ok(self[str(key)])
    ELSE KeyError(key)

\* __missing__(self, key): a str key is reported missing; any other key is
\* looked up again as str(key).
__missing__(self, key) ==
    IF isinstance_str(key) THEN KeyError(key)
    ELSE __getitem__(self, str(key))

GetItemNormalisesFirst(self, key) ==
    IF str(key) \in keys(self) THEN Ok(self[str(key)])
    ELSE IF key \in keys(self) THEN Ok(self[key])
    ELSE KeyError(str(key))

\* self[key]: dict.__getitem__ returns the value of a stored key and calls
\* __missing__ for any other.
__getitem__(self, key) ==
    IF key \in keys(self) THEN Ok(self[key])
    ELSE __missing__(self, key)

GetIgnoresDefault(self, key, default) ==
    LET r == __getitem__(self, key)
    IN IF r.st = "KeyError" THEN Ok(None) ELSE r

\* get(self, key, default): self[key], or default when that raises KeyError.
get(self, key, default) ==
    LET r == __getitem__(self, key)
    IN IF r.st = "KeyError" THEN Ok(default) ELSE r

ContainsConvertedOnly(self, key) == str(key) \in keys(self)

ContainsDirectOnly(self, key) == key \in keys(self)

\* __contains__(self, key)
__contains__(self, key) == key \in keys(self) \/ str(key) \in keys(self)

(***************************************************************************)
(* The calls.  Call(...) is the record of one call; nargs is the number of *)
(* arguments the caller passed to get.                                     *)
(***************************************************************************)
Call(op, key, value, nargs, pairs, res) ==
    [op |-> op, key |-> key, value |-> value, nargs |-> nargs,
     pairs |-> pairs, res |-> res]

PairSeqs == UNION {[1..n -> Key \X Val] : n \in 0..MaxPairs}

\* d = StrKeyDict0(pairs)
Init ==
    \E pairs \in PairSeqs :
        /\ d = StrKeyDict0(pairs)
        /\ last = Call("__init__", NoKey, None, 0, pairs, Ok(None))

GetItemCaches(key) ==
    LET r == __getitem__(d, key)
    IN /\ d' = IF r.st = "ok" THEN dict_setitem(d, key, r.val) ELSE d
       /\ last' = Call("__getitem__", key, None, 0, <<>>, r)

\* d[key]
GetItem(key) ==
    /\ last' = Call("__getitem__", key, None, 0, <<>>, __getitem__(d, key))
    /\ UNCHANGED d

GetSetsDefault(key, default, nargs) ==
    LET r == get(d, key, default)
    IN /\ d' = IF key \in keys(d) THEN d ELSE dict_setitem(d, key, r.val)
       /\ last' = Call("get", key, default, nargs, <<>>, r)

\* d.get(key) with nargs = 1 (default is then None), d.get(key, default)
\* with nargs = 2.
Get(key, default, nargs) ==
    /\ last' = Call("get", key, default, nargs, <<>>, get(d, key, default))
    /\ UNCHANGED d

\* key in d
Contains(key) ==
    /\ last' = Call("__contains__", key, None, 0, <<>>,
                    Bool(__contains__(d, key)))
    /\ UNCHANGED d

SetItemNormalises(key, value) ==
    /\ d' = dict_setitem(d, str(key), value)
    /\ last' = Call("__setitem__", key, value, 0, <<>>, Ok(None))

\* d[key] = value: the inherited insertion.
SetItem(key, value) ==
    /\ d' = dict_setitem(d, key, value)
    /\ last' = Call("__setitem__", key, value, 0, <<>>, Ok(None))

\* del d[key]: the inherited removal; it raises KeyError(key) for a key
\* that is not stored and does not call __missing__.
DelItem(key) ==
    /\ d' = IF key \in keys(d) THEN dict_delitem(d, key) ELSE d
    /\ last' = Call("__delitem__", key, None, 0, <<>>,
                    IF key \in keys(d) THEN Ok(None) ELSE KeyError(key))

Next ==
    \E key \in Key :
        \/ GetItem(key)
        \/ Get(key, None, 1)
        \/ \E default \in Default : Get(key, default, 2)
        \/ Contains(key)
        \/ \E value \in Val : SetItem(key, value)
        \/ DelItem(key)

Spec == Init /\ [][Next]_vars

(***************************************************************************)
(* Properties.                                                             *)
(***************************************************************************)
IsLookup(call) == call.op \in {"__getitem__", "get", "__contains__"}

AllKeysText(self) == \A k \in keys(self) : isinstance_str(k)

\* The characters of the text representation of a key.
TextOf(key) == IF key.t = "str" THEN key.s ELSE ToText(key.n)

\* The value of the last pair of pairs whose key is key.
Paired(pairs, key) ==
    LET i == CHOOSE i \in DOMAIN pairs :
                /\ pairs[i][1] = key
                /\ \A j \in DOMAIN pairs : pairs[j][1] = key => j <= i
    IN pairs[i][2]

\* C1 as stated: whenever the text representation of a non-text key n is
\* stored, d[n] gives what d[str(n)] gives.
C1_Original ==
    (/\ last.op = "__getitem__"
     /\ ~isinstance_str(last.key)
     /\ str(last.key) \in keys(d))
        => last.res = __getitem__(d, str(last.key))

\* C1 amended: whenever the text representation of a non-text key n is
\* stored and n itself is not stored, d[n] gives what d[str(n)] gives,
\* which is the value stored under str(n).
C1_Amended ==
    (/\ last.op = "__getitem__"
     /\ ~isinstance_str(last.key)
     /\ last.key \notin keys(d)
     /\ str(last.key) \in keys(d))
        => /\ last.res = __getitem__(d, str(last.key))
           /\ last.res = Ok(d[StrKey(TextOf(last.key))])

C1_Witness ==
    /\ last.op = "__getitem__"
    /\ ~isinstance_str(last.key)
    /\ last.key \notin keys(d)
    /\ str(last.key) \in keys(d)
    /\ last.res.st = "ok"

\* C2: d[key] either returns or raises KeyError; a str key that is not
\* stored is reported as it was given, and a non-str key that is stored
\* neither as given nor as its text is reported as its text.
C2_MissReportsKey ==
    last.op = "__getitem__" =>
        /\ last.res.st \in {"ok", "KeyError"}
        /\ (isinstance_str(last.key) /\ last.key \notin keys(d))
                => last.res = KeyError(last.key)
        /\ (/\ ~isinstance_str(last.key)
            /\ last.key \notin keys(d)
            /\ StrKey(TextOf(last.key)) \notin keys(d))
                => last.res = KeyError(StrKey(TextOf(last.key)))

C2_Witness ==
    /\ last.op = "__getitem__"
    /\ ~isinstance_str(last.key)
    /\ last.res.st = "KeyError"
    /\ last.res.key # last.key
    /\ d # EmptyDict

\* C3: d.get(key, default) never raises: it returns what d[key] returns
\* when d[key] returns, and the default (None when none was passed) when
\* d[key] raises KeyError.
C3_GetOrDefault ==
    last.op = "get" =>
        LET g == __getitem__(d, last.key)
        IN /\ last.res.st = "ok"
           /\ g.st = "ok" => last.res = g
           /\ g.st = "KeyError" =>
                last.res = Ok(IF last.nargs = 1 THEN None ELSE last.value)

C3_Witness ==
    /\ last.op = "get"
    /\ last.nargs = 2
    /\ ~isinstance_str(last.key)
    /\ __getitem__(d, last.key).st = "KeyError"
    /\ last.res = Ok("N/A")

\* C4: key in d is true exactly when key is stored as given or the text
\* representation of key is stored.
C4_Contains ==
    last.op = "__contains__" =>
        (last.res.b <=>
            \E k \in keys(d) :
                \/ k = last.key
                \/ k.t = "str" /\ k.s = TextOf(last.key))

C4_Witness ==
    /\ last.op = "__contains__"
    /\ ~isinstance_str(last.key)
    /\ last.key \notin keys(d)
    /\ last.res.b

\* C5: right after construction from pairs, d[k] returns the value paired
\* with k for every str key k of the pairs (the last such pair when the
\* key is repeated).
C5_Constructed ==
    last.op = "__init__" =>
        \A i \in DOMAIN last.pairs :
            isinstance_str(last.pairs[i][1]) =>
                __getitem__(d, last.pairs[i][1])
                    = Ok(Paired(last.pairs, last.pairs[i][1]))

C5_Witness ==
    /\ last.op = "__init__"
    /\ Len(last.pairs) = 2
    /\ \A i \in DOMAIN last.pairs : isinstance_str(last.pairs[i][1])
    /\ last.pairs[1][1] # last.pairs[2][1]
    /\ last.pairs[1][2] # last.pairs[2][2]

\* C6: d[key], d.get(key, default) and key in d leave the mapping as it
\* was, whatever their outcome.
C6_ReadsArePure == [][IsLookup(last') => d' = d]_vars

C6_Witness ==
    /\ last.op = "get"
    /\ ~isinstance_str(last.key)
    /\ last.key \notin keys(d)
    /\ str(last.key) \in keys(d)
    /\ last.res.st = "ok"

\* C7 as stated: every stored key is a str.
C7_Original == AllKeysText(d)

\* C7 amended: construction from pairs whose keys are all str stores only
\* str keys, and a mapping that stores only str keys still does after any
\* lookup, any removal and any insertion of a str key; only construction
\* or insertion with a non-str key stores one.
C7_Amended ==
    [][/\ (/\ last.op = "__init__"
           /\ \A i \in DOMAIN last.pairs : isinstance_str(last.pairs[i][1]))
            => AllKeysText(d)
       /\ (/\ AllKeysText(d)
           /\ ~(last'.op = "__setitem__" /\ ~isinstance_str(last'.key)))
            => AllKeysText(d')]_vars

C7_Witness ==
    /\ last.op = "__getitem__"
    /\ ~isinstance_str(last.key)
    /\ last.res.st = "ok"
    /\ d # EmptyDict
    /\ AllKeysText(d)

\* C8: when the key is stored as given, d[key] returns the value stored
\* under that very key, also when str(key) is stored with another value.
C8_DirectFirst ==
    (last.op = "__getitem__" /\ last.key \in keys(d))
        => last.res = Ok(d[last.key])

C8_Witness ==
    /\ last.op = "__getitem__"
    /\ ~isinstance_str(last.key)
    /\ last.key \in keys(d)
    /\ str(last.key) \in keys(d)
    /\ d[last.key] # d[str(last.key)]
    /\ last.res = Ok(d[last.key])

\* What C9 says of a mapping that stores a non-str key n and not str(n).
Unnormalised(self) ==
    \A n \in keys(self) :
        (~isinstance_str(n) /\ str(n) \notin keys(self)) =>
            /\ __getitem__(self, n) = Ok(self[n])
            /\ __getitem__(self, str(n)) = KeyError(str(n))
            /\ \A default \in Default \cup {None} :
                    get(self, str(n), default) = Ok(default)
            /\ ~__contains__(self, str(n))

\* C9: an insertion of a non-str key n stores n and not str(n); while n is
\* stored and str(n) is not, d[n] returns the value of n, d[str(n)] raises
\* KeyError(str(n)), d.get(str(n), default) returns default and str(n) in d
\* is false; an insertion of str(n) makes d[str(n)] return.
C9_ReadOnlyNormalisation ==
    [][/\ Unnormalised(d)
       /\ Unnormalised(d')
       /\ (/\ last'.op = "__setitem__"
           /\ ~isinstance_str(last'.key)
           /\ str(last'.key) \notin keys(d))
            => /\ last'.key \in keys(d')
               /\ str(last'.key) \notin keys(d')
               /\ __getitem__(d', last'.key) = Ok(last'.value)
       /\ (last'.op = "__setitem__" /\ isinstance_str(last'.key))
            => __getitem__(d', last'.key) = Ok(last'.value)]_vars

C9_Witness ==
    /\ last.op = "__setitem__"
    /\ ~isinstance_str(last.key)
    /\ last.key \in keys(d)
    /\ str(last.key) \notin keys(d)

\* C10: for every key k, k in d is true exactly when d[k] returns a value.
C10_ContainsIffLookup ==
    \A k \in Key : __contains__(d, k) <=> (__getitem__(d, k).st = "ok")

C10_Witness ==
    /\ last.op = "__contains__"
    /\ ~isinstance_str(last.key)
    /\ last.key \in keys(d)
    /\ str(last.key) \notin keys(d)
    /\ last.res.b

====
